---- MODULE Spec2Model ----
(***************************************************************************)
(* Request lifecycle of the YTSave relay (src/main.py).                    *)
(*                                                                         *)
(* Every inbound text message is handled by one handle_message coroutine.  *)
(* A coroutine runs on the event loop between two awaits without           *)
(* interruption; every action below is one such segment, or one step of    *)
(* the yt-dlp worker thread started by run_in_executor.  An awaited        *)
(* transport call is issued at the end of one segment and its outcome      *)
(* (returns / raises) is the input of the next.  All requests share the    *)
(* process working directory (disk) and the wall clock.  Handlers of       *)
(* different messages interleave at their awaits, the scheduling the       *)
(* design document states for the dispatch loop (one task per request).    *)
(***************************************************************************)
EXTENDS Integers, Sequences, FiniteSets, TLC

\* ------------------------------------------------------------------ bounds
NumReqs == 2        \* requests (inbound messages) in one run
MaxClock == 2       \* int(time.time()) takes the values 1..MaxClock
MaxErrors == 2      \* errors handed to error_handler in one run

Reqs == 1..NumReqs
ChatIds == {1, 11}  \* update.effective_chat.id
Durations == {120, 1200}   \* seconds, as reported by extract_info

\* ---------------------------------------------------------------- strings
\* A Python str is a sequence of one-character strings ("video_" and the
\* extension are kept as one element each: no operation splits them).
youtube_com == <<"y","o","u","t","u","b","e",".","c","o","m">>
youtu_be == <<"y","o","u","t","u",".","b","e">>

Texts ==
  { <<"h","e","l","l","o">>,
    <<"y","o","u","t","u","b","e">>,
    <<"y","o","u","t","u",".","b","e","/","x">> }

\* Python's `needle in s` for str
Contains(s, needle) ==
  \E i \in 1..(Len(s) - Len(needle) + 1) :
     SubSeq(s, i, i + Len(needle) - 1) = needle

\* Python's s.startswith(p)
StartsWith(s, p) == Len(p) <= Len(s) /\ SubSeq(s, 1, Len(p)) = p

DigitChar(d) ==
  CASE d = 0 -> "0" [] d = 1 -> "1" [] d = 2 -> "2" [] d = 3 -> "3"
    [] d = 4 -> "4" [] d = 5 -> "5" [] d = 6 -> "6" [] d = 7 -> "7"
    [] d = 8 -> "8" [] d = 9 -> "9"

\* format of a non-negative int inside an f-string
RECURSIVE Digits(_)
Digits(n) ==
  IF n < 10 THEN <<DigitChar(n)>>
  ELSE Digits(n \div 10) \o <<DigitChar(n % 10)>>

\* f"video_{chat_id}_{int(time.time())}.mp4"
FileNameNoChat(chat_id, now) == <<"video_">> \o Digits(now) \o <<".mp4">>
FileName(chat_id, now) ==
  <<"video_">> \o Digits(chat_id) \o <<"_">> \o Digits(now) \o <<".mp4">>

\* f"video_{chat_id}"
ScanPrefix(chat_id) == <<"video_">> \o Digits(chat_id)

\* ------------------------------------------------------------------ sizes
MiB == 1024 * 1024
SizeLimit == 49 * MiB                 \* os.path.getsize(actual_file) > ...
FileSizes == {SizeLimit, SizeLimit + 1}
PartialSize == 1 * MiB                \* a download in progress

MaxFilesize == 50 * MiB               \* ydl_opts['max_filesize']

TooLargeCeiling(size) == size > MaxFilesize
TooLarge(size) == size > SizeLimit

\* "youtube.com" not in url and "youtu.be" not in url
IsInvalidShortNeedle(url) ==
  ~Contains(url, SubSeq(youtube_com, 1, 7)) /\ ~Contains(url, youtu_be)
IsInvalid(url) == ~Contains(url, youtube_com) /\ ~Contains(url, youtu_be)

\* ------------------------------------------------------------------ state
VARIABLES
  clock,       \* int(time.time())
  disk,        \* the working directory: file name -> [owner, size]
  pc,          \* per request: position of its coroutine / worker thread
  chat,        \* chat_id
  text,        \* url = update.message.text
  filename,    \* download_video's filename (<<>> before it is computed)
  video_path,  \* handle_message's local: Unset, None or a file name
  error,       \* handle_message's local error ("" is None)
  hist,        \* the pipeline states the request has passed through
  reason,      \* the reason of Failed ("" while not failed)
  status,      \* text of the status message ("none" before it exists)
  calls,       \* transport calls issued for the request, in order
  purges,      \* number of removals (sweep or os.remove) run for the request
  escaped,     \* an exception left handle_message
  wrote,       \* size of the file the request's own fetch wrote (0: none)
  duration,    \* duration extract_info reported (0: not probed)
  opened,      \* owner of the file open(video_path) returned (0: none)
  delivered,   \* send_video returned without raising
  TOKEN,       \* os.getenv("TELEGRAM_TOKEN") ("None" is Python's None)
  main_pc,     \* position of main()
  boot,        \* what main() has done so far, in order
  exit_code,   \* exit code of the process (-1 while it runs)
  loop,        \* the event-loop thread: "free", or "sleeping" in time.sleep
  wake,        \* the time at which the running time.sleep returns
  errors,      \* the errors handed to error_handler, in order
  logged       \* the lines error_handler logged, in order

procVars == <<TOKEN, main_pc, boot, exit_code, loop, wake, errors, logged>>

vars == <<clock, disk, pc, chat, text, filename, video_path, error, hist,
          reason, status, calls, purges, escaped, wrote, duration, opened,
          delivered, TOKEN, main_pc, boot, exit_code, loop, wake, errors,
          logged>>

Unset == <<"unset">>
None == <<"None">>

\* the names os.listdir('.') yields that start with video_{chat_id}
Matches(d, chat_id) == {f \in DOMAIN d : StartsWith(f, ScanPrefix(chat_id))}

\* os.remove of a set of names
Remove(d, names) == [f \in (DOMAIN d) \ names |-> d[f]]

\* the tool writing (creating or overwriting) its output file
WriteFile(d, name, r, size) ==
  [f \in (DOMAIN d) \cup {name} |->
     IF f = name THEN [owner |-> r, size |-> size] ELSE d[f]]

Last(s) == s[Len(s)]

\* the files a failed fetch sweeps (lines 80-82)
SweepNothing(d, chat_id) == {}
SweepTargets(d, chat_id) == Matches(d, chat_id)

\* line 119: os.remove(video_path) after the upload
KeepAfterUpload(d, path) == d
RemoveAfterUpload(d, path) == Remove(d, {path})

\* entering Failed(why): Failed is absorbing, the first reason stays
FailHist(h) == IF h # << >> /\ Last(h) = "Failed" THEN h ELSE Append(h, "Failed")
FailReason(old, why) == IF old = "" THEN why ELSE old

\* no update has been handled yet
InitRequests ==
  /\ clock = 1
  /\ disk = << >>
  /\ pc = [r \in Reqs |-> "idle"]
  /\ chat = [r \in Reqs |-> 0]
  /\ text = [r \in Reqs |-> << >>]
  /\ filename = [r \in Reqs |-> << >>]
  /\ video_path = [r \in Reqs |-> Unset]
  /\ error = [r \in Reqs |-> ""]
  /\ hist = [r \in Reqs |-> << >>]
  /\ reason = [r \in Reqs |-> ""]
  /\ status = [r \in Reqs |-> "none"]
  /\ calls = [r \in Reqs |-> << >>]
  /\ purges = [r \in Reqs |-> 0]
  /\ escaped = [r \in Reqs |-> FALSE]
  /\ wrote = [r \in Reqs |-> 0]
  /\ duration = [r \in Reqs |-> 0]
  /\ opened = [r \in Reqs |-> 0]
  /\ delivered = [r \in Reqs |-> FALSE]

TokenValues == {"None", "", "123:abc"}

\* what main() does up to start_polling when nothing fails (lines 134-152)
Booted == <<"flask", "build", "delete_webhook", "start_polling">>

\* the process is polling: main() has passed line 152
Init ==
  /\ InitRequests
  /\ TOKEN = "123:abc"
  /\ main_pc = "polling"
  /\ boot = Booted
  /\ exit_code = -1
  /\ loop = "free"
  /\ wake = 0
  /\ errors = << >>
  /\ logged = << >>

\* the process starts: line 14 has read the environment
InitProc ==
  /\ InitRequests
  /\ TOKEN \in TokenValues
  /\ main_pc = "main"
  /\ boot = << >>
  /\ exit_code = -1
  /\ loop = "free"
  /\ wake = 0
  /\ errors = << >>
  /\ logged = << >>

\* time.time() advances
Tick ==
  /\ clock < MaxClock
  /\ clock' = clock + 1
  /\ UNCHANGED procVars
  /\ UNCHANGED <<disk, pc, chat, text, filename, video_path, error, hist,
                 reason, status, calls, purges, escaped, wrote, duration,
                 opened, delivered>>

\* handle_message, lines 97-104: the update arrives, the text is tested and
\* the first reply is issued.  Requests are numbered in order of arrival.
\* Updates arrive only while the process polls; a segment of a coroutine
\* runs only when the event-loop thread is not inside a blocking call.
Receive(r, c, t) ==
  /\ pc[r] = "idle"
  /\ main_pc = "polling"
  /\ loop = "free"
  /\ UNCHANGED procVars
  /\ \A q \in Reqs : q < r => pc[q] # "idle"
  /\ chat' = [chat EXCEPT ![r] = c]
  /\ text' = [text EXCEPT ![r] = t]
  /\ IF IsInvalid(t)
       THEN /\ hist' = [hist EXCEPT ![r] = <<"Received", "Failed">>]
            /\ reason' = [reason EXCEPT ![r] = "InvalidUrl"]
            /\ calls' = [calls EXCEPT ![r] = <<"sendText:invalid">>]
            /\ pc' = [pc EXCEPT ![r] = "await_reply_invalid"]
       ELSE /\ hist' = [hist EXCEPT ![r] = <<"Received", "Validated">>]
            /\ reason' = reason
            /\ calls' = [calls EXCEPT ![r] = <<"sendText:processing">>]
            /\ pc' = [pc EXCEPT ![r] = "await_reply_processing"]
  /\ UNCHANGED <<clock, disk, filename, video_path, error, status, purges,
                 escaped, wrote, duration, opened, delivered>>

\* lines 101-102: the reply to an invalid text returns or raises
ReplyInvalidReturn(r, ok) ==
  /\ pc[r] = "await_reply_invalid"
  /\ loop = "free"
  /\ UNCHANGED procVars
  /\ pc' = [pc EXCEPT ![r] = "done"]
  /\ escaped' = [escaped EXCEPT ![r] = ~ok]
  /\ UNCHANGED <<clock, disk, chat, text, filename, video_path, error, hist,
                 reason, status, calls, purges, wrote, duration, opened,
                 delivered>>

\* line 104 returns: the status message exists; lines 106-107 and 41-63:
\* download_video computes filename and hands run_ydl to the executor.
\* Line 104 raises: it is outside the try, the exception leaves the handler.
ReplyProcessingReturn(r, ok) ==
  /\ pc[r] = "await_reply_processing"
  /\ loop = "free"
  /\ UNCHANGED procVars
  /\ IF ok
       THEN /\ status' = [status EXCEPT ![r] = "processing"]
            /\ filename' = [filename EXCEPT ![r] = FileName(chat[r], clock)]
            /\ hist' = [hist EXCEPT ![r] = Append(@, "Fetching")]
            /\ pc' = [pc EXCEPT ![r] = "downloading"]
            /\ UNCHANGED <<reason, escaped>>
       ELSE /\ escaped' = [escaped EXCEPT ![r] = TRUE]
            /\ hist' = [hist EXCEPT ![r] = FailHist(@)]
            /\ reason' = [reason EXCEPT ![r] = FailReason(@, "InternalError")]
            /\ pc' = [pc EXCEPT ![r] = "done"]
            /\ UNCHANGED <<status, filename>>
  /\ UNCHANGED <<clock, disk, chat, text, video_path, error, calls, purges,
                 wrote, duration, opened, delivered>>

\* worker thread, line 59: ydl.download has written part of the output file
ToolWritePartial(r) ==
  /\ pc[r] = "downloading"
  /\ UNCHANGED procVars
  /\ wrote[r] = 0
  /\ disk' = WriteFile(disk, filename[r], r, PartialSize)
  /\ wrote' = [wrote EXCEPT ![r] = PartialSize]
  /\ UNCHANGED <<clock, pc, chat, text, filename, video_path, error, hist,
                 reason, status, calls, purges, escaped, duration, opened,
                 delivered>>

\* worker thread, line 59: ydl.download returns, the output file is complete
ToolDownloadOk(r, size) ==
  /\ pc[r] = "downloading"
  /\ UNCHANGED procVars
  /\ disk' = WriteFile(disk, filename[r], r, size)
  /\ wrote' = [wrote EXCEPT ![r] = size]
  /\ pc' = [pc EXCEPT ![r] = "probing"]
  /\ UNCHANGED <<clock, chat, text, filename, video_path, error, hist,
                 reason, status, calls, purges, escaped, duration, opened,
                 delivered>>

\* worker thread, line 59 with max_filesize (line 48): ydl.download returns
\* having skipped the download, no file is written
ToolDownloadSkip(r) ==
  /\ pc[r] = "downloading"
  /\ UNCHANGED procVars
  /\ wrote[r] = 0
  /\ pc' = [pc EXCEPT ![r] = "probing"]
  /\ UNCHANGED <<clock, disk, chat, text, filename, video_path, error, hist,
                 reason, status, calls, purges, escaped, wrote, duration,
                 opened, delivered>>

\* worker thread, line 59: ydl.download raises (whatever it wrote stays)
ToolDownloadRaise(r) ==
  /\ pc[r] = "downloading"
  /\ UNCHANGED procVars
  /\ pc' = [pc EXCEPT ![r] = "tool_raised"]
  /\ UNCHANGED <<clock, disk, chat, text, filename, video_path, error, hist,
                 reason, status, calls, purges, escaped, wrote, duration,
                 opened, delivered>>

\* worker thread, line 60: extract_info(url, download=False) returns the
\* metadata (after the download), or raises
ToolProbe(r, ok, d) ==
  /\ pc[r] = "probing"
  /\ UNCHANGED procVars
  /\ IF ok
       THEN /\ duration' = [duration EXCEPT ![r] = d]
            /\ pc' = [pc EXCEPT ![r] = "tool_ok"]
       ELSE /\ duration' = duration
            /\ pc' = [pc EXCEPT ![r] = "tool_raised"]
  /\ UNCHANGED <<clock, disk, chat, text, filename, video_path, error, hist,
                 reason, status, calls, purges, escaped, wrote, opened,
                 delivered>>

\* handle_message lines 121-123: the except block logs and issues
\* edit_text("Download error"); the request is Failed(why)
EnterExcept(r, why) ==
  /\ hist' = [hist EXCEPT ![r] = FailHist(@)]
  /\ reason' = [reason EXCEPT ![r] = FailReason(@, why)]
  /\ calls' = [calls EXCEPT ![r] = Append(@, "editText:download_error")]
  /\ pc' = [pc EXCEPT ![r] = "await_edit_dlerr"]

\* lines 72/76/83 then 107-110: download_video returned (None, error);
\* handle_message issues edit_text("Error: ...")
ReturnError(r, err, why) ==
  /\ video_path' = [video_path EXCEPT ![r] = None]
  /\ error' = [error EXCEPT ![r] = err]
  /\ hist' = [hist EXCEPT ![r] = FailHist(@)]
  /\ reason' = [reason EXCEPT ![r] = FailReason(@, why)]
  /\ calls' = [calls EXCEPT ![r] = Append(@, "editText:error")]
  /\ pc' = [pc EXCEPT ![r] = "await_edit_error"]

\* download_video lines 65-78 after run_in_executor returned, then
\* handle_message lines 107-113.  os.listdir yields the names in arbitrary
\* order and the loop stops at the first match, so actual_file is any match.
DownloadReturn(r) ==
  /\ pc[r] = "tool_ok"
  /\ loop = "free"
  /\ UNCHANGED procVars
  /\ IF Matches(disk, chat[r]) = {}
       THEN /\ ReturnError(r, "not_found", "NotFound")
            /\ UNCHANGED <<disk, purges>>
       ELSE \E actual_file \in Matches(disk, chat[r]) :
              IF TooLarge(disk[actual_file].size)
                THEN /\ disk' = Remove(disk, {actual_file})
                     /\ purges' = [purges EXCEPT ![r] = @ + 1]
                     /\ ReturnError(r, "too_large", "SizeExceeded")
                ELSE /\ video_path' = [video_path EXCEPT ![r] = actual_file]
                     /\ hist' = [hist EXCEPT ![r] = @ \o <<"Verified", "Delivering">>]
                     /\ calls' = [calls EXCEPT ![r] = Append(@, "editText:uploading")]
                     /\ pc' = [pc EXCEPT ![r] = "await_edit_uploading"]
                     /\ UNCHANGED <<disk, purges, error, reason>>
  /\ UNCHANGED <<clock, chat, text, filename, status, escaped, wrote,
                 duration, opened, delivered>>

\* download_video lines 79-83 after run_ydl raised, then handle_message
\* lines 107-110
DownloadExceptRetry(r) ==
  /\ pc[r] = "tool_raised"
  /\ loop = "free"
  /\ UNCHANGED procVars
  /\ disk' = Remove(disk, SweepTargets(disk, chat[r]))
  /\ pc' = [pc EXCEPT ![r] = "downloading"]
  /\ UNCHANGED <<clock, chat, text, filename, status, escaped, wrote,
                 duration, opened, delivered, video_path, error, hist,
                 reason, calls, purges>>
DownloadExcept(r) ==
  /\ pc[r] = "tool_raised"
  /\ loop = "free"
  /\ UNCHANGED procVars
  /\ disk' = Remove(disk, SweepTargets(disk, chat[r]))
  /\ purges' = [purges EXCEPT ![r] = @ + 1]
  /\ ReturnError(r, "fetch_error", "FetchError")
  /\ UNCHANGED <<clock, chat, text, filename, status, escaped, wrote,
                 duration, opened, delivered>>

\* a Telegram message that was deleted cannot be edited: the call raises
CanEdit(r) == status[r] # "deleted"

\* line 110 returns (then line 111 returns from the handler) or raises
EditErrorReturn(r, ok) ==
  /\ pc[r] = "await_edit_error"
  /\ loop = "free"
  /\ UNCHANGED procVars
  /\ IF ok
       THEN /\ status' = [status EXCEPT ![r] = error[r]]
            /\ pc' = [pc EXCEPT ![r] = "done"]
            /\ UNCHANGED <<hist, reason, calls>>
       ELSE /\ EnterExcept(r, "InternalError")
            /\ status' = status
  /\ UNCHANGED <<clock, disk, chat, text, filename, video_path, error, purges,
                 escaped, wrote, duration, opened, delivered>>

\* line 113 returns, then lines 115-116: open(video_path) and send_video is
\* issued; or line 113 or open raises
EditUploadingReturn(r, ok) ==
  /\ pc[r] = "await_edit_uploading"
  /\ loop = "free"
  /\ UNCHANGED procVars
  /\ IF ok /\ video_path[r] \in DOMAIN disk
       THEN /\ status' = [status EXCEPT ![r] = "uploading"]
            /\ opened' = [opened EXCEPT ![r] = disk[video_path[r]].owner]
            /\ calls' = [calls EXCEPT ![r] = Append(@, "sendVideo")]
            /\ pc' = [pc EXCEPT ![r] = "await_send"]
            /\ UNCHANGED <<hist, reason>>
       ELSE /\ status' = [status EXCEPT ![r] = IF ok THEN "uploading" ELSE @]
            /\ EnterExcept(r, "InternalError")
            /\ opened' = opened
  /\ UNCHANGED <<clock, disk, chat, text, filename, video_path, error, purges,
                 escaped, wrote, duration, delivered>>

\* line 116 returns, the file is closed and line 118 issues
\* status_msg.delete(); or line 116 raises
SendReturn(r, ok) ==
  /\ pc[r] = "await_send"
  /\ loop = "free"
  /\ UNCHANGED procVars
  /\ IF ok
       THEN /\ delivered' = [delivered EXCEPT ![r] = TRUE]
            /\ calls' = [calls EXCEPT ![r] = Append(@, "deleteMessage")]
            /\ pc' = [pc EXCEPT ![r] = "await_delete"]
            /\ UNCHANGED <<hist, reason>>
       ELSE /\ EnterExcept(r, "DeliveryError")
            /\ delivered' = delivered
  /\ UNCHANGED <<clock, disk, chat, text, filename, video_path, error, status,
                 purges, escaped, wrote, duration, opened>>

\* line 118 returns, then line 119: os.remove(video_path), which raises
\* FileNotFoundError when the file is gone; or line 118 raises
DeleteReturn(r, ok) ==
  /\ pc[r] = "await_delete"
  /\ loop = "free"
  /\ UNCHANGED procVars
  /\ IF ok /\ video_path[r] \in DOMAIN disk
       THEN /\ status' = [status EXCEPT ![r] = "deleted"]
            /\ disk' = RemoveAfterUpload(disk, video_path[r])
            /\ purges' = [purges EXCEPT ![r] = @ + 1]
            /\ hist' = [hist EXCEPT ![r] = Append(@, "Done")]
            /\ pc' = [pc EXCEPT ![r] = "done"]
            /\ UNCHANGED <<reason, calls>>
       ELSE /\ status' = [status EXCEPT ![r] = IF ok THEN "deleted" ELSE @]
            /\ EnterExcept(r, "InternalError")
            /\ UNCHANGED <<disk, purges>>
  /\ UNCHANGED <<clock, chat, text, filename, video_path, error, escaped,
                 wrote, duration, opened, delivered>>

\* line 123 returns, then lines 124-125: video_path is bound (download_video
\* never raises); os.path.exists(None) raises TypeError, which leaves the
\* handler; an existing file is removed.  Or line 123 raises inside the
\* except block and leaves the handler before line 124.
EditDlErrReturn(r, ok) ==
  /\ pc[r] = "await_edit_dlerr"
  /\ loop = "free"
  /\ UNCHANGED procVars
  /\ ok => CanEdit(r)
  /\ pc' = [pc EXCEPT ![r] = "done"]
  /\ IF ~ok
       THEN /\ escaped' = [escaped EXCEPT ![r] = TRUE]
            /\ UNCHANGED <<status, disk, purges>>
       ELSE /\ status' = [status EXCEPT ![r] = "download_error"]
            /\ IF video_path[r] = None
                 THEN /\ escaped' = [escaped EXCEPT ![r] = TRUE]
                      /\ UNCHANGED <<disk, purges>>
                 ELSE IF video_path[r] \in DOMAIN disk
                   THEN /\ disk' = Remove(disk, {video_path[r]})
                        /\ purges' = [purges EXCEPT ![r] = @ + 1]
                        /\ escaped' = escaped
                   ELSE UNCHANGED <<disk, purges, escaped>>
  /\ UNCHANGED <<clock, chat, text, filename, video_path, error, hist, reason,
                 calls, wrote, duration, opened, delivered>>

\* ---------------------------------------------------- process level
CooldownSeconds == 5

\* line 129: `not TOKEN`
TokenNeverMissing(t) == FALSE
TokenMissing(t) == t \in {"None", ""}

\* lines 90-92: the blocking sleep error_handler takes for an error
NoCooldown(err) == 0
Cooldown(err) == IF err = "Conflict" THEN CooldownSeconds ELSE 0

\* lines 91 / 94: the line error_handler logs
LogLine(err) == IF err = "Conflict" THEN "warning:conflict" ELSE "error:exception"

\* main lines 129-131: sys.exit(1) raises SystemExit, which asyncio.run
\* passes on and `except Exception` (line 163) does not catch
MainCheckToken ==
  /\ main_pc = "main"
  /\ IF TokenMissing(TOKEN)
       THEN /\ boot' = Append(boot, "log:token_missing")
            /\ exit_code' = 1
            /\ main_pc' = "exited"
       ELSE /\ main_pc' = "flask"
            /\ UNCHANGED <<boot, exit_code>>
  /\ UNCHANGED <<clock, disk, pc, chat, text, filename, video_path, error,
                 hist, reason, status, calls, purges, escaped, wrote,
                 duration, opened, delivered, TOKEN, loop, wake, errors,
                 logged>>

\* main line 134: the liveness server thread is started
MainStartFlask ==
  /\ main_pc = "flask"
  /\ boot' = Append(boot, "flask")
  /\ main_pc' = "build"
  /\ UNCHANGED <<clock, disk, pc, chat, text, filename, video_path, error,
                 hist, reason, status, calls, purges, escaped, wrote,
                 duration, opened, delivered, TOKEN, exit_code, loop, wake,
                 errors, logged>>

\* main lines 137-140: the application is built, the handlers registered
MainBuild ==
  /\ main_pc = "build"
  /\ boot' = Append(boot, "build")
  /\ main_pc' = "webhook"
  /\ UNCHANGED <<clock, disk, pc, chat, text, filename, video_path, error,
                 hist, reason, status, calls, purges, escaped, wrote,
                 duration, opened, delivered, TOKEN, exit_code, loop, wake,
                 errors, logged>>

\* main line 144: delete_webhook returns or raises; an exception that
\* leaves main() is caught at line 163 and logged, and the script then ends
\* normally
MainDeleteWebhook(ok) ==
  /\ main_pc = "webhook"
  /\ boot' = Append(boot, "delete_webhook")
  /\ IF ok
       THEN /\ main_pc' = "start"
            /\ exit_code' = exit_code
       ELSE /\ main_pc' = "exited"
            /\ exit_code' = 0
  /\ UNCHANGED <<clock, disk, pc, chat, text, filename, video_path, error,
                 hist, reason, status, calls, purges, escaped, wrote,
                 duration, opened, delivered, TOKEN, loop, wake, errors,
                 logged>>

\* main lines 149-152: initialize, start, start_polling return or raise
MainStartPolling(ok) ==
  /\ main_pc = "start"
  /\ boot' = Append(boot, "start_polling")
  /\ IF ok
       THEN /\ main_pc' = "polling"
            /\ exit_code' = exit_code
       ELSE /\ main_pc' = "exited"
            /\ exit_code' = 0
  /\ UNCHANGED <<clock, disk, pc, chat, text, filename, video_path, error,
                 hist, reason, status, calls, purges, escaped, wrote,
                 duration, opened, delivered, TOKEN, loop, wake, errors,
                 logged>>

\* error_handler, lines 89-94, runs on the event-loop thread: it logs and,
\* for a Conflict, enters time.sleep(5) on that thread
ErrorHandler(err) ==
  /\ main_pc = "polling"
  /\ loop = "free"
  /\ Len(errors) < MaxErrors
  /\ errors' = Append(errors, err)
  /\ logged' = Append(logged, LogLine(err))
  /\ IF Cooldown(err) > 0
       THEN /\ loop' = "sleeping"
            /\ wake' = clock + Cooldown(err)
       ELSE UNCHANGED <<loop, wake>>
  /\ UNCHANGED <<clock, disk, pc, chat, text, filename, video_path, error,
                 hist, reason, status, calls, purges, escaped, wrote,
                 duration, opened, delivered, TOKEN, main_pc, boot,
                 exit_code>>

\* line 92: time.sleep(5) returns, five seconds after it was entered
SleepReturn ==
  /\ loop = "sleeping"
  /\ loop' = "free"
  /\ clock' = IF clock < wake THEN wake ELSE clock
  /\ UNCHANGED <<disk, pc, chat, text, filename, video_path, error, hist,
                 reason, status, calls, purges, escaped, wrote, duration,
                 opened, delivered, TOKEN, main_pc, boot, exit_code, wake,
                 errors, logged>>

Next ==
  \/ Tick
  \/ \E r \in Reqs, c \in ChatIds, t \in Texts : Receive(r, c, t)
  \/ \E r \in Reqs, ok \in BOOLEAN : ReplyInvalidReturn(r, ok)
  \/ \E r \in Reqs, ok \in BOOLEAN : ReplyProcessingReturn(r, ok)
  \/ \E r \in Reqs : ToolWritePartial(r)
  \/ \E r \in Reqs, size \in FileSizes : ToolDownloadOk(r, size)
  \/ \E r \in Reqs : ToolDownloadSkip(r)
  \/ \E r \in Reqs : ToolDownloadRaise(r)
  \/ \E r \in Reqs, ok \in BOOLEAN, d \in Durations : ToolProbe(r, ok, d)
  \/ \E r \in Reqs : DownloadReturn(r)
  \/ \E r \in Reqs : DownloadExcept(r)
  \/ \E r \in Reqs, ok \in BOOLEAN : EditErrorReturn(r, ok)
  \/ \E r \in Reqs, ok \in BOOLEAN : EditUploadingReturn(r, ok)
  \/ \E r \in Reqs, ok \in BOOLEAN : SendReturn(r, ok)
  \/ \E r \in Reqs, ok \in BOOLEAN : DeleteReturn(r, ok)
  \/ \E r \in Reqs, ok \in BOOLEAN : EditDlErrReturn(r, ok)

Spec == Init /\ [][Next]_vars

\* the process from its start, with the error handler, serving one request
ProcReqs == {1}
ErrorKinds == {"Conflict", "NetworkError"}

NextProc ==
  \/ MainCheckToken
  \/ MainStartFlask
  \/ MainBuild
  \/ \E ok \in BOOLEAN : MainDeleteWebhook(ok)
  \/ \E ok \in BOOLEAN : MainStartPolling(ok)
  \/ \E err \in ErrorKinds : ErrorHandler(err)
  \/ SleepReturn
  \/ Tick
  \/ \E r \in ProcReqs, c \in ChatIds, t \in Texts : Receive(r, c, t)
  \/ \E r \in ProcReqs, ok \in BOOLEAN : ReplyInvalidReturn(r, ok)
  \/ \E r \in ProcReqs, ok \in BOOLEAN : ReplyProcessingReturn(r, ok)
  \/ \E r \in ProcReqs : ToolWritePartial(r)
  \/ \E r \in ProcReqs, size \in FileSizes : ToolDownloadOk(r, size)
  \/ \E r \in ProcReqs : ToolDownloadSkip(r)
  \/ \E r \in ProcReqs : ToolDownloadRaise(r)
  \/ \E r \in ProcReqs, ok \in BOOLEAN, d \in Durations : ToolProbe(r, ok, d)
  \/ \E r \in ProcReqs : DownloadReturn(r)
  \/ \E r \in ProcReqs : DownloadExcept(r)
  \/ \E r \in ProcReqs, ok \in BOOLEAN : EditErrorReturn(r, ok)
  \/ \E r \in ProcReqs, ok \in BOOLEAN : EditUploadingReturn(r, ok)
  \/ \E r \in ProcReqs, ok \in BOOLEAN : SendReturn(r, ok)
  \/ \E r \in ProcReqs, ok \in BOOLEAN : DeleteReturn(r, ok)
  \/ \E r \in ProcReqs, ok \in BOOLEAN : EditDlErrReturn(r, ok)

SpecProc == InitProc /\ [][NextProc]_vars

\* every step of an accepted request: the resumptions of its coroutine and
\* the steps of its worker thread
RequestStep(r) ==
  \/ \E ok \in BOOLEAN : ReplyInvalidReturn(r, ok)
  \/ \E ok \in BOOLEAN : ReplyProcessingReturn(r, ok)
  \/ ToolWritePartial(r)
  \/ \E size \in FileSizes : ToolDownloadOk(r, size)
  \/ ToolDownloadSkip(r)
  \/ ToolDownloadRaise(r)
  \/ \E ok \in BOOLEAN, d \in Durations : ToolProbe(r, ok, d)
  \/ DownloadReturn(r)
  \/ DownloadExcept(r)
  \/ \E ok \in BOOLEAN : EditErrorReturn(r, ok)
  \/ \E ok \in BOOLEAN : EditUploadingReturn(r, ok)
  \/ \E ok \in BOOLEAN : SendReturn(r, ok)
  \/ \E ok \in BOOLEAN : DeleteReturn(r, ok)
  \/ \E ok \in BOOLEAN : EditDlErrReturn(r, ok)

\* every external call eventually returns or raises, and the event loop
\* resumes every coroutine whose awaited call has ended
FairSpec == Spec /\ \A r \in Reqs : WF_vars(RequestStep(r))

\* ------------------------------------------------------ claim vocabulary
Called(r, op) == \E i \in DOMAIN calls[r] : calls[r][i] = op
OwnFiles(r) == {f \in DOMAIN disk : disk[f].owner = r}
Allocated(r) == filename[r] # << >>
InFlight(r) == pc[r] \notin {"idle", "done"}
\* a recognized media-host URL pattern, as the specification words it
Recognized(t) == Contains(t, youtube_com) \/ Contains(t, youtu_be)
hello == <<"h","e","l","l","o">>
SuccessStates ==
  <<"Received", "Validated", "Fetching", "Verified", "Delivering", "Done">>

\* C1 (as claimed): once a request is terminal, no file its fetch wrote is
\* left in the working directory, whichever external step failed.
C1_NoArtifactAfterTerminal ==
  \A r \in Reqs : pc[r] = "done" => OwnFiles(r) = {}

\* C2: a text with no recognized URL pattern ends in Failed(InvalidUrl): the
\* only transport call is the "send a valid link" reply, download_video is
\* not entered (no filename, no fetch, no file) and no status message exists.
C2_InvalidUrlRejected ==
  \A r \in Reqs :
    (pc[r] # "idle" /\ ~Recognized(text[r])) =>
      /\ pc[r] \in {"await_reply_invalid", "done"}
      /\ hist[r] = <<"Received", "Failed">>
      /\ reason[r] = "InvalidUrl"
      /\ calls[r] = <<"sendText:invalid">>
      /\ ~Allocated(r)
      /\ wrote[r] = 0 /\ duration[r] = 0
      /\ OwnFiles(r) = {}
      /\ status[r] = "none"

C2_Witness ==
  \E r \in Reqs : pc[r] = "done" /\ text[r] = hello /\ ~escaped[r]

\* C3 (as claimed): a request whose media lasts longer than the 900 s limit
\* never gets send_video called.
C3_LongVideoNeverSent ==
  \A r \in Reqs : duration[r] > 900 => ~Called(r, "sendVideo")

\* C4 (as claimed): a request whose downloaded artifact is larger than the
\* size limit never gets send_video called.
C4_OversizedNeverSent ==
  \A r \in Reqs : wrote[r] > SizeLimit => ~Called(r, "sendVideo")

\* C5: requests of different chats never get the same artifact name,
\* whatever their allocation times (equal ones included).
AllocInjective ==
  \A c1 \in {1, 11, 12, 111}, c2 \in {1, 11, 12, 111} :
    \A t1 \in {1, 2, 11, 12}, t2 \in {1, 2, 11, 12} :
      c1 # c2 => FileName(c1, t1) # FileName(c2, t2)

C5_DistinctChatsDistinctNames ==
  /\ AllocInjective
  /\ \A r1 \in Reqs, r2 \in Reqs :
       (Allocated(r1) /\ Allocated(r2) /\ chat[r1] # chat[r2])
         => filename[r1] # filename[r2]

C5_Witness ==
  \E r1 \in Reqs, r2 \in Reqs :
    /\ chat[r1] # chat[r2]
    /\ pc[r1] = "downloading" /\ pc[r2] = "downloading"
    /\ \E t \in 1..MaxClock :
         /\ filename[r1] = FileName(chat[r1], t)
         /\ filename[r2] = FileName(chat[r2], t)

\* C6 (as claimed): two requests of the same chat that are in flight at the
\* same time never hold the same artifact name.
C6_SameChatDistinctNames ==
  \A r1 \in Reqs, r2 \in Reqs :
    (r1 # r2 /\ chat[r1] = chat[r2] /\ Allocated(r1) /\ Allocated(r2)
       /\ InFlight(r1) /\ InFlight(r2))
      => filename[r1] # filename[r2]

C8_DeliveryFailureCleansUp ==
  \A r \in Reqs :
    (pc[r] = "done" /\ reason[r] = "DeliveryError")
      => video_path[r] \notin DOMAIN disk

\* C9 (as claimed): after validation no exception leaves handle_message.
C9_NothingEscapes ==
  \A r \in Reqs : reason[r] # "InvalidUrl" => ~escaped[r]

\* C10: when the fetch raised, the step in which download_video reports
\* the failure has removed every file whose name starts with the request's
\* prefix, and from then on no file the request's fetch wrote is on disk.
C10_SweepBeforeReport ==
  /\ [](\A r \in Reqs : error[r] = "fetch_error" => OwnFiles(r) = {})
  /\ [][\A r \in Reqs :
          (pc[r] = "tool_raised" /\ pc'[r] # "tool_raised")
            => (error'[r] = "fetch_error" /\ Matches(disk', chat[r]) = {})]_vars

C10_Witness ==
  \E r \in Reqs :
    /\ pc[r] = "await_edit_error" /\ error[r] = "fetch_error"
    /\ wrote[r] = PartialSize

\* the step is one of request q (every step of a request moves its pc,
\* but for the worker thread's partial write)
Acts(q) == pc'[q] # pc[q]
ErrorTexts == {"not_found", "too_large", "fetch_error", "download_error"}
SendCount(r) == Cardinality({i \in DOMAIN calls[r] : calls[r][i] = "sendVideo"})

\* C12 (as claimed): the guarded removal of handle_message's except block,
\* run when no file of the request exists, raises no error.
C12_GuardedRemovalNoError ==
  \A r \in Reqs :
    (pc[r] = "done" /\ status[r] = "download_error" /\ OwnFiles(r) = {})
      => ~escaped[r]

\* C15 (as claimed): the file a request opens and streams to send_video was
\* written by that request's own fetch.
C15_SendsOwnFile ==
  \A r \in Reqs : opened[r] \in {0, r}

\* C17 (as claimed): a removal done by one request never deletes a file of
\* a different request that is in flight.
C17_CleanupLeavesOthers ==
  [][\A f \in DOMAIN disk :
       f \notin DOMAIN disk' =>
         \A q \in Reqs :
           Acts(q) => (disk[f].owner = q \/ ~InFlight(disk[f].owner))]_vars

\* C18: send_video is issued at most once per request, and only when
\* download_video returned a path and no error and no failure has occurred;
\* the returned path named an existing file of at most 49 MiB when it was
\* verified, which is below the 50 MiB ceiling given to the fetch tool.
C18_SendOnlyVerified ==
  /\ [](SizeLimit < MaxFilesize)
  /\ [](\A r \in Reqs : SendCount(r) <= 1)
  /\ [][\A r \in Reqs :
          (SendCount(r) = 0 /\ Called(r, "sendVideo")')
            => /\ pc[r] = "await_edit_uploading"
               /\ error[r] = "" /\ reason[r] = "" /\ ~escaped[r]
               /\ video_path[r] \notin {Unset, None}]_vars
  /\ [][\A r \in Reqs :
          (pc[r] = "tool_ok" /\ pc'[r] = "await_edit_uploading")
            => /\ video_path'[r] \in DOMAIN disk'
               /\ disk'[video_path'[r]].size <= SizeLimit]_vars
  /\ [](\A r \in Reqs :
          (reason[r] # "" /\ ~Called(r, "sendVideo")) => pc[r] # "await_send")

C18_Witness ==
  \E r \in Reqs :
    /\ pc[r] = "await_send" /\ SendCount(r) = 1
    /\ \E q \in Reqs : q # r /\ wrote[q] > SizeLimit /\ reason[q] = "SizeExceeded"

\* C19 (as claimed): once send_video has succeeded, the status message is
\* never rewritten to an error text.
C19_NoErrorAfterDelivery ==
  \A r \in Reqs : delivered[r] => status[r] \notin ErrorTexts

\* C16: provided every external call eventually returns or raises, every
\* accepted request eventually is terminal, in Done or in Failed; a terminal
\* request issues no further transport call and no further file operation.
C16_EveryRequestTerminates ==
  /\ \A r \in Reqs :
       (pc[r] # "idle") ~> (pc[r] = "done" /\ Last(hist[r]) \in {"Done", "Failed"})
  /\ [][\A r \in Reqs :
          pc[r] = "done" =>
            /\ pc'[r] = "done" /\ hist'[r] = hist[r]
            /\ calls'[r] = calls[r] /\ purges'[r] = purges[r]
            /\ \A f \in DOMAIN disk' :
                 disk'[f].owner = r => (f \in DOMAIN disk /\ disk[f] = disk'[f])]_vars

C16_Witness ==
  \E r1 \in Reqs, r2 \in Reqs :
    /\ pc[r1] = "done" /\ Last(hist[r1]) = "Done"
    /\ pc[r2] = "done" /\ Last(hist[r2]) = "Failed" /\ Allocated(r2)

\* the segments of request r's coroutine, which run on the event loop
HandlerStep(r) ==
  \/ \E ok \in BOOLEAN : ReplyInvalidReturn(r, ok)
  \/ \E ok \in BOOLEAN : ReplyProcessingReturn(r, ok)
  \/ DownloadReturn(r)
  \/ DownloadExcept(r)
  \/ \E ok \in BOOLEAN : EditErrorReturn(r, ok)
  \/ \E ok \in BOOLEAN : EditUploadingReturn(r, ok)
  \/ \E ok \in BOOLEAN : SendReturn(r, ok)
  \/ \E ok \in BOOLEAN : DeleteReturn(r, ok)
  \/ \E ok \in BOOLEAN : EditDlErrReturn(r, ok)

\* the coroutine of r waits for the event loop to resume it
Resumable(r) ==
  pc[r] \in {"await_reply_invalid", "await_reply_processing", "tool_ok",
             "tool_raised", "await_edit_error", "await_edit_uploading",
             "await_send", "await_delete", "await_edit_dlerr"}

\* C11 (as claimed): nothing blocks the dispatch loop: the next step of a
\* request whose awaited call has ended is enabled, also while a conflict
\* cooldown is in progress.
C11_LoopNeverBlocked ==
  \A r \in Reqs : Resumable(r) => ENABLED HandlerStep(r)

\* the credential is absent: TELEGRAM_TOKEN is not set
Absent(t) == t = "None"

\* C13: with TELEGRAM_TOKEN absent the process exits with code 1 at the
\* first step of main(): the liveness thread is never started and no
\* transport call (build, delete_webhook, start_polling) is made.
C13_MissingTokenIsFatal ==
  (Absent(TOKEN) /\ main_pc # "main") =>
     /\ main_pc = "exited"
     /\ exit_code = 1
     /\ boot = <<"log:token_missing">>
     /\ \A r \in Reqs : pc[r] = "idle"

C13_Witness == Absent(TOKEN) /\ main_pc = "exited"

\* C14: for every Conflict error_handler logs the conflict and the event
\* loop stays in the cooldown until five seconds have passed: until then no
\* update is received and no error handled; nothing is sent to any user
\* for it.  Any other error is logged only, with no cooldown.
C14_ConflictCooldown ==
  /\ [](/\ Len(logged) = Len(errors)
        /\ \A i \in DOMAIN errors :
             logged[i] = IF errors[i] = "Conflict" THEN "warning:conflict"
                         ELSE "error:exception")
  /\ [][errors' # errors =>
          /\ calls' = calls /\ status' = status /\ delivered' = delivered
          /\ IF Last(errors') = "Conflict"
               THEN loop' = "sleeping" /\ wake' = clock + CooldownSeconds
               ELSE loop' = "free" /\ wake' = wake]_vars
  /\ [][loop = "sleeping" =>
          /\ errors' = errors /\ calls' = calls /\ hist' = hist
          /\ (loop' = "free" => clock' >= wake)]_vars

C14_Witness ==
  /\ errors = <<"Conflict", "NetworkError">>
  /\ loop = "free"
  /\ clock >= 1 + CooldownSeconds
  /\ \E r \in Reqs : pc[r] = "await_send"
====
